---- MODULE Spec2Model ----
(***************************************************************************)
(* A model of easy_profiler's reader (src/src/reader.cpp):                 *)
(* release_stats, update_statistics, update_statistics_recursive and       *)
(* fillTreesFromFile, together with the caller that may store a negative   *)
(* value into the shared progress cell.                                    *)
(*                                                                         *)
(* The trace file is a header and a stream of records (descriptor records, *)
(* thread-group headers, block records).  A stream ends at a record        *)
(* boundary.  Block timestamps satisfy begin <= end, and the raw           *)
(* descriptor id of a block names a descriptor of the file.                *)
(***************************************************************************)
EXTENDS Integers, Sequences, FiniteSets, TLC

\* ------------------------------------------------------------------------
\* Bounds of the model
\* ------------------------------------------------------------------------
MaxBlocks == 3     \* block records of a generated file
MaxTime == 3       \* timestamps are 0..MaxTime
MaxUpdates == 3    \* update_statistics calls of the scope-map harness
MaxDuration == 2   \* durations fed to the scope-map harness

BLOCK_TYPE_BLOCK == "block"
BLOCK_TYPE_THREAD_SIGN == "thread_sign"

ThreadIds == {0, 1, 2}
Names == {"", "a", "b"}

Max(S) == CHOOSE x \in S : \A y \in S : y <= x
Min(S) == CHOOSE x \in S : \A y \in S : x <= y

RECURSIVE SumSeq(_)
SumSeq(s) == IF s = <<>> THEN 0 ELSE Head(s) + SumSeq(Tail(s))

Range(s) == {s[k] : k \in 1..Len(s)}

\* a std::unordered_map / std::map as a function over its present keys
EmptyMap == [k \in {} |-> 0]
HasKey(m, k) == k \in DOMAIN m
Put(m, k, v) == [x \in (DOMAIN m) \cup {k} |-> IF x = k THEN v ELSE m[x]]

\* ------------------------------------------------------------------------
\* The trace file (spec section 6) and the caller
\* ------------------------------------------------------------------------
\* One record of the stream.  kind is "desc" (a descriptor record: sz, type),
\* "thread" (a thread-group header: thread_id, blocks_number_in_thread) or
\* "block" (a block record: sz, id, begin, end, name).
Tok(kind, sz, type, thread_id, n, id, begin, end, name) ==
    [kind |-> kind, sz |-> sz, type |-> type, thread_id |-> thread_id,
     blocks_number_in_thread |-> n, id |-> id, begin |-> begin, end |-> end,
     name |-> name]
DescTok(sz, type) == Tok("desc", sz, type, 0, 0, 0, 0, 0, "")
ThreadTok(t, n) == Tok("thread", 0, BLOCK_TYPE_BLOCK, t, n, 0, 0, 0, "")
BlockTok(sz, id, begin, end, name) ==
    Tok("block", sz, BLOCK_TYPE_BLOCK, 0, 0, id, begin, end, name)

\* what a failed read leaves in the variables it was to fill: they keep
\* their initial value 0
NoTok == Tok("none", 0, BLOCK_TYPE_BLOCK, 0, 0, 0, 0, 0, "")

\* A generated block: the thread that recorded it and its record.
Blk(t, sz, id, begin, end, name) ==
    [thread |-> t, sz |-> sz, id |-> id, begin |-> begin, end |-> end, name |-> name]

\* length of the run of blocks of one thread that starts at bs[k]
RECURSIVE RunLen(_, _)
RunLen(bs, k) ==
    IF k < Len(bs) /\ bs[k + 1].thread = bs[k].thread THEN 1 + RunLen(bs, k + 1) ELSE 1

\* the block part of the stream: consecutive blocks of one thread form a group
RECURSIVE GroupStream(_, _)
GroupStream(bs, k) ==
    IF k > Len(bs) THEN <<>>
    ELSE (IF k = 1 \/ bs[k - 1].thread # bs[k].thread
             THEN <<ThreadTok(bs[k].thread, RunLen(bs, k))>> ELSE <<>>)
         \o <<BlockTok(bs[k].sz, bs[k].id, bs[k].begin, bs[k].end, bs[k].name)>>
         \o GroupStream(bs, k + 1)

\* the two descriptors of every generated file: 0 is an ordinary block, 1 a thread sign
FileDescs == <<DescTok(1, BLOCK_TYPE_BLOCK), DescTok(1, BLOCK_TYPE_THREAD_SIGN)>>

MkInput(ds, bs, gather, cancels) ==
    [open |-> TRUE,
     total_blocks_number |-> Len(bs),
     memory_size |-> SumSeq([k \in 1..Len(bs) |-> bs[k].sz]),
     total_descriptors_number |-> Len(ds),
     descriptors_memory_size |-> SumSeq([k \in 1..Len(ds) |-> ds[k].sz]),
     stream |-> ds \o GroupStream(bs, 1),
     gather_statistics |-> gather,
     caller_cancels |-> cancels]

Intervals == {iv \in (0..MaxTime) \X (0..MaxTime) : iv[1] <= iv[2]}

\* X lies inside Y / X and Y share no more than an end point
Encloses(y, x) == y[1] <= x[1] /\ x[2] <= y[2]
Disjoint(x, y) == x[2] <= y[1] \/ y[2] <= x[1]

\* Close order (spec 4.4): intervals pairwise nested or disjoint, every block
\* after the blocks nested inside it, disjoint blocks in increasing time.
WellFormed(ivs) ==
    \A j, k \in 1..Len(ivs) : j < k =>
        /\ ~Encloses(ivs[j], ivs[k])
        /\ Encloses(ivs[k], ivs[j]) \/ ivs[j][2] <= ivs[k][1]

\* ------------------------------------------------------------------------
\* State
\* ------------------------------------------------------------------------
VARIABLES
    input,                  \* the file, the gather_statistics flag, the caller's intent
    pc,                     \* position of fillTreesFromFile
    progress,               \* ::std::atomic<int>& progress
    pos, eof,               \* inFile: next record of the stream, its eofbit
    misaligned,             \* the reads no longer start at record boundaries
    i, read_number, threshold, thread_id, blocks_counter,
    serialized_blocks, serialized_descriptors,
    descriptors,            \* descriptors_list_t
    identification_table,   \* IdMap
    threaded_trees,         \* thread_blocks_tree_t
    nodes,                  \* every BlocksTree built, at block_index + 1
    stats,                  \* the heap of BlockStatistics; a pointer is an index, 0 is nullptr
    thread_statistics, parent_statistics, frame_statistics,
    spawned, joined,        \* statistics_threads: thread ids in spawn order, number joined
    wpc, wframe,            \* per worker: position and index of its current frame
    result,                 \* the returned value, -1 before the return
    cancelled_serial,       \* the caller stored a negative value during the two read loops
    observed_cancel,        \* the poll at line 461 has seen a negative value
    stored,                 \* the values the operation stored into progress, in order
    h_map, h_slots, h_log   \* the scope-map harness: one StatsMap, the pointers held, the calls made

vars == <<input, pc, progress, pos, eof, misaligned, i, read_number, threshold, thread_id,
          blocks_counter, serialized_blocks, serialized_descriptors, descriptors,
          identification_table, threaded_trees, nodes, stats, thread_statistics,
          parent_statistics, frame_statistics, spawned, joined, wpc, wframe, result,
          cancelled_serial, observed_cancel, stored, h_map, h_slots, h_log>>

\* ------------------------------------------------------------------------
\* BlockStatistics, release_stats, update_statistics
\* ------------------------------------------------------------------------
\* ::profiler::BlockStatistics(duration, block_index) (profiler/reader.h, spec 4.5)
BlockStatistics(duration, block_index) ==
    [calls_number |-> 1, total_duration |-> duration,
     max_duration |-> duration, max_duration_block |-> block_index,
     min_duration |-> duration, min_duration_block |-> block_index,
     deleted |-> FALSE]

\* SerializedBlock::duration() (profiler/reader.h): end - begin
Duration(node) == node.end - node.begin

\* release_stats with calls_number-- for --calls_number: the record is deleted
\* only when it was already at 0
release_stats_post_decrement(heap, p) ==
    IF p = 0 THEN heap
    ELSE [heap EXCEPT ![p] = [@ EXCEPT !.calls_number = @ - 1,
                                       !.deleted = (heap[p].calls_number = 0)]]

\* release_stats(_stats), lines 58-71: the heap after the call (the caller's
\* pointer becomes nullptr)
release_stats(heap, p) ==
    IF p = 0 THEN heap
    ELSE [heap EXCEPT ![p] = [@ EXCEPT !.calls_number = @ - 1,
                                       !.deleted = (heap[p].calls_number - 1 = 0)]]

\* UpdateExisting with >= and <= for > and <: an equal duration replaces the extremum
UpdateExistingTies(st, duration, block_index) ==
    LET s1 == [st EXCEPT !.calls_number = @ + 1, !.total_duration = @ + duration]
        s2 == IF duration >= s1.max_duration
                 THEN [s1 EXCEPT !.max_duration_block = block_index, !.max_duration = duration]
                 ELSE s1
    IN  IF duration <= s2.min_duration
           THEN [s2 EXCEPT !.min_duration_block = block_index, !.min_duration = duration]
           ELSE s2

\* lines 213-228: update of an already existing record
UpdateExisting(st, duration, block_index) ==
    LET s1 == [st EXCEPT !.calls_number = @ + 1, !.total_duration = @ + duration]
        s2 == IF duration > s1.max_duration
                 THEN [s1 EXCEPT !.max_duration_block = block_index, !.max_duration = duration]
                 ELSE s1
    IN  IF duration < s2.min_duration
           THEN [s2 EXCEPT !.min_duration_block = block_index, !.min_duration = duration]
           ELSE s2

\* update_statistics(_stats_map, _current), lines 201-242: the heap, the map and
\* the returned pointer
update_statistics(heap, map, current) ==
    LET duration == Duration(current.node)
        id == current.node.id
    IN  IF HasKey(map, id)
           THEN [heap |-> [heap EXCEPT ![map[id]] =
                               UpdateExisting(@, duration, current.block_index)],
                 map |-> map, stats |-> map[id]]
           ELSE [heap |-> Append(heap, BlockStatistics(duration, current.block_index)),
                 map |-> Put(map, id, Len(heap) + 1), stats |-> Len(heap) + 1]

\* ------------------------------------------------------------------------
\* BlocksTree, BlocksTreeRoot and the steps of the block loop
\* ------------------------------------------------------------------------
\* a default-constructed ::profiler::BlocksTree (profiler/reader.h) that views `node`
BlocksTree(node, block_index) ==
    [node |-> node, block_index |-> block_index, depth |-> 0, children |-> <<>>,
     per_thread_stats |-> 0, per_parent_stats |-> 0, per_frame_stats |-> 0]

\* a default-constructed ::profiler::BlocksTreeRoot (profiler/reader.h)
BlocksTreeRoot == [thread_name |-> "", thread_id |-> 0,
                   tree |-> [depth |-> 0, children |-> <<>>]]

\* the BlocksTree with block index b
N(ns, b) == ns[b + 1]

\* Intern without the push_back of line 388: the descriptor list does not grow
InternNoAppend(table, descs, node) ==
    IF node.name # ""
       THEN IF HasKey(table, node.name)
               THEN [table |-> table, descriptors |-> descs, id |-> table[node.name]]
               ELSE [table |-> Put(table, node.name, Len(descs)),
                     descriptors |-> descs,
                     id |-> Len(descs)]
       ELSE [table |-> table, descriptors |-> descs, id |-> node.id]

\* lines 376-391: the interner; the id the block ends with, the table and the
\* descriptor list after it
Intern(table, descs, node) ==
    IF node.name # ""
       THEN IF HasKey(table, node.name)
               THEN [table |-> table, descriptors |-> descs, id |-> table[node.name]]
               ELSE [table |-> Put(table, node.name, Len(descs)),
                     descriptors |-> Append(descs, descs[node.id + 1]),
                     id |-> Len(descs)]
       ELSE [table |-> table, descriptors |-> descs, id |-> node.id]

\* FindLower that also stops at a child that begins exactly at mt0
RECURSIVE FindLowerStopsAtEqual(_, _, _, _)
FindLowerStopsAtEqual(ns, children, k, mt0) ==
    IF k = 0 THEN 1
    ELSE IF mt0 >= N(ns, children[k]).node.begin THEN k + 1
    ELSE FindLowerStopsAtEqual(ns, children, k - 1, mt0)

\* FindLower without the scan: `lower` stays at the last child
FindLowerLastOnly(ns, children, k, mt0) == k + 1

\* lines 403-411: the reverse scan from the second-to-last child (position k)
\* down to the first child that begins before mt0; the position of `lower`
RECURSIVE FindLower(_, _, _, _)
FindLower(ns, children, k, mt0) ==
    IF k = 0 THEN 1
    ELSE IF mt0 > N(ns, children[k]).node.begin THEN k + 1
    ELSE FindLower(ns, children, k - 1, mt0)

\* StartsBeforeLastEnds with <= for <: a block that starts when the last child ends adopts it
StartsBeforeOrWhenLastEnds(mt0, t1) == mt0 <= t1

\* line 398: the new block starts earlier than the last child ends
StartsBeforeLastEnds(mt0, t1) == mt0 < t1

\* line 412: the children from `lower` on are moved into the new block
Adopted(children, lower) == SubSeq(children, lower, Len(children))

\* Kept erasing from the element after `lower`: the first adopted child stays behind as well
KeptOneMore(children, lower) == SubSeq(children, 1, lower)

\* line 414: they are erased from the root's children
Kept(children, lower) == SubSeq(children, 1, lower - 1)

\* Cleared that leaves the map as it is: the records of the previous scope stay in use
NotCleared(map) == map

\* lines 421, 488, 496: StatsMap::clear(); the records stay with the nodes that hold them
Cleared(map) == EmptyMap

\* GatherWithinParent without lines 432-433: the depth is left as it was
RECURSIVE GatherWithinParentNoDepth(_, _, _, _, _, _)
GatherWithinParentNoDepth(heap, map, ns, children, k, depth) ==
    IF k > Len(children) THEN [heap |-> heap, map |-> map, nodes |-> ns, depth |-> depth]
    ELSE LET b == children[k]
             u == update_statistics(heap, map, N(ns, b))
             ns1 == [ns EXCEPT ![b + 1].per_parent_stats = u.stats]
         IN  GatherWithinParentNoDepth(u.heap, u.map, ns1, children, k + 1, depth)

\* lines 427-434: parent-scope statistics and depth over the adopted children
RECURSIVE GatherWithinParent(_, _, _, _, _, _)
GatherWithinParent(heap, map, ns, children, k, depth) ==
    IF k > Len(children) THEN [heap |-> heap, map |-> map, nodes |-> ns, depth |-> depth]
    ELSE LET b == children[k]
             u == update_statistics(heap, map, N(ns, b))
             ns1 == [ns EXCEPT ![b + 1].per_parent_stats = u.stats]
             d == IF depth < N(ns, b).depth THEN N(ns, b).depth ELSE depth
         IN  GatherWithinParent(u.heap, u.map, ns1, children, k + 1, d)

\* lines 438-443: depth over the adopted children
RECURSIVE ChildrenDepth(_, _, _, _)
ChildrenDepth(ns, children, k, depth) ==
    IF k > Len(children) THEN depth
    ELSE ChildrenDepth(ns, children, k + 1,
                       IF depth < N(ns, children[k]).depth
                          THEN N(ns, children[k]).depth ELSE depth)

\* lines 363-459: one decoded block record `tok` of thread t is interned,
\* adopts the trailing run of the root's children and is appended to them
BuildBlock(tok, t) ==
    LET block_index == blocks_counter
        pps == IF HasKey(parent_statistics, t) THEN parent_statistics
                                                ELSE Put(parent_statistics, t, EmptyMap)
        pts == IF HasKey(thread_statistics, t) THEN thread_statistics
                                                ELSE Put(thread_statistics, t, EmptyMap)
        base == [id |-> tok.id, begin |-> tok.begin, end |-> tok.end, name |-> tok.name]
        descriptor == descriptors[base.id + 1]
        root0 == IF descriptor.type = BLOCK_TYPE_THREAD_SIGN
                    THEN [threaded_trees[t] EXCEPT !.thread_name = base.name]
                    ELSE threaded_trees[t]
        intern == Intern(identification_table, descriptors, base)
        node == [base EXCEPT !.id = intern.id]
        tree0 == BlocksTree(node, block_index)
        rc == root0.tree.children
        adopts == /\ rc # <<>>
                  /\ StartsBeforeLastEnds(node.begin, N(nodes, rc[Len(rc)]).node.end)
        lower == FindLower(nodes, rc, Len(rc) - 1, node.begin)
        adopted == IF adopts THEN Adopted(rc, lower) ELSE <<>>
        kept == IF adopts THEN Kept(rc, lower) ELSE rc
        g == IF adopts /\ input.gather_statistics
                THEN GatherWithinParent(stats, Cleared(pps[t]), nodes, adopted, 1, 0)
                ELSE [heap |-> stats, map |-> pps[t], nodes |-> nodes,
                      depth |-> ChildrenDepth(nodes, adopted, 1, 0)]
        tree1 == [tree0 EXCEPT !.children = adopted,
                               !.depth = IF adopts THEN g.depth + 1 ELSE 0]
        ns1 == Append(g.nodes, tree1)
        u == update_statistics(g.heap, pts[t], tree1)
        gs == input.gather_statistics
    IN  [descriptors |-> intern.descriptors,
         identification_table |-> intern.table,
         threaded_trees |-> [threaded_trees EXCEPT ![t] =
                                [root0 EXCEPT !.tree.children = Append(kept, block_index)]],
         nodes |-> IF gs THEN [ns1 EXCEPT ![block_index + 1].per_thread_stats = u.stats]
                         ELSE ns1,
         stats |-> IF gs THEN u.heap ELSE g.heap,
         parent_statistics |-> [pps EXCEPT ![t] = g.map],
         thread_statistics |-> IF gs THEN [pts EXCEPT ![t] = u.map] ELSE pts]

\* ------------------------------------------------------------------------
\* fillTreesFromFile: opening, header, descriptor loop, block loop
\* ------------------------------------------------------------------------
Return(r) == /\ pc' = "done"
             /\ result' = r

\* what a read of sizeof(...) bytes yields when the stream is not at a record
\* of the expected kind: bytes of other records, whatever they hold
GarbageThreads == {ThreadTok(t, n) : t \in {0, 1}, n \in 0..2}
GarbageBlocks == {BlockTok(0, 0, 0, 0, ""), BlockTok(1, 0, 0, MaxTime, ""),
                  BlockTok(1, 0, MaxTime, MaxTime, "")}

\* the records a read of kind `kind` can yield at the current position
\* (the stream is not at its end)
Reads(kind, garbage) ==
    IF ~misaligned /\ input.stream[pos].kind = kind THEN {input.stream[pos]} ELSE garbage

AtEnd == pos > Len(input.stream)

\* lines 265-269
Open ==
    /\ pc = "start"
    /\ progress' = 0
    /\ stored' = Append(stored, 0)
    /\ IF ~input.open
          THEN Return(0)
          ELSE pc' = "header" /\ UNCHANGED result
    /\ UNCHANGED <<input, pos, eof, misaligned, i, read_number, threshold, thread_id,
                   blocks_counter, serialized_blocks, serialized_descriptors, descriptors,
                   identification_table, threaded_trees, nodes, stats, thread_statistics,
                   parent_statistics, frame_statistics, spawned, joined, wpc, wframe,
                   cancelled_serial, observed_cancel, h_map, h_slots, h_log>>

\* lines 274-301: the four header fields, their zero checks and the two allocations
Header ==
    /\ pc = "header"
    /\ IF input.total_blocks_number = 0 \/ input.memory_size = 0
          THEN /\ Return(0)
               /\ UNCHANGED <<serialized_blocks, serialized_descriptors>>
          ELSE IF input.total_descriptors_number = 0 \/ input.descriptors_memory_size = 0
          THEN /\ Return(0)
               /\ serialized_blocks' = "new"
               /\ UNCHANGED serialized_descriptors
          ELSE /\ pc' = "desc_loop"
               /\ serialized_blocks' = "new"
               /\ serialized_descriptors' = "new"
               /\ UNCHANGED result
    /\ UNCHANGED <<input, progress, pos, eof, misaligned, i, read_number, threshold,
                   thread_id, blocks_counter, descriptors, identification_table,
                   threaded_trees, nodes, stats, thread_statistics, parent_statistics,
                   frame_statistics, spawned, joined, wpc, wframe, cancelled_serial,
                   observed_cancel, stored, h_map, h_slots, h_log>>

\* ZeroLength that accepts every length: an empty record is decoded like any other
ZeroLengthAccepted(sz) == FALSE

\* lines 309, 355: the length prefix read is 0 (also what a failed read leaves)
ZeroLength(sz) == sz = 0

\* line 328
DescriptorProgress(offset) == (10 * offset) \div input.descriptors_memory_size

\* lines 303-329: one iteration of the descriptor loop
ReadDescriptor ==
    /\ pc = "desc_loop"
    /\ ~eof /\ read_number < input.total_descriptors_number
    /\ read_number' = read_number + 1
    /\ IF AtEnd
          THEN /\ eof' = TRUE
               /\ Return(0)
               /\ UNCHANGED <<pos, i, descriptors, progress, stored>>
          ELSE \E tok \in Reads("desc", {DescTok(0, BLOCK_TYPE_BLOCK)}) :
               /\ pos' = pos + 1
               /\ UNCHANGED eof
               /\ IF ZeroLength(tok.sz)
                     THEN /\ Return(0)
                          /\ UNCHANGED <<i, descriptors, progress, stored>>
                     ELSE /\ i' = i + tok.sz
                          /\ descriptors' = Append(descriptors, [ptr |-> i, type |-> tok.type])
                          /\ progress' = DescriptorProgress(i + tok.sz)
                          /\ stored' = Append(stored, DescriptorProgress(i + tok.sz))
                          /\ UNCHANGED <<pc, result>>
    /\ UNCHANGED <<input, misaligned, threshold, thread_id, blocks_counter,
                   serialized_blocks, serialized_descriptors, identification_table,
                   threaded_trees, nodes, stats, thread_statistics, parent_statistics,
                   frame_statistics, spawned, joined, wpc, wframe, cancelled_serial,
                   observed_cancel, h_map, h_slots, h_log>>

\* lines 303, 331-334: the descriptor loop ends
DescriptorsDone ==
    /\ pc = "desc_loop"
    /\ eof \/ read_number >= input.total_descriptors_number
    /\ pc' = "thread_loop"
    /\ i' = 0
    /\ read_number' = 0
    /\ UNCHANGED <<input, progress, pos, eof, misaligned, threshold, thread_id,
                   blocks_counter, serialized_blocks, serialized_descriptors, descriptors,
                   identification_table, threaded_trees, nodes, stats, thread_statistics,
                   parent_statistics, frame_statistics, spawned, joined, wpc, wframe, result,
                   cancelled_serial, observed_cancel, stored, h_map, h_slots, h_log>>

\* lines 335-346: one thread-group header; threaded_trees[thread_id] creates the root
ReadThread ==
    /\ pc = "thread_loop"
    /\ ~eof /\ read_number < input.total_blocks_number
    /\ \E tok \in (IF AtEnd THEN {NoTok} ELSE Reads("thread", GarbageThreads)) :
        /\ IF AtEnd THEN eof' = TRUE /\ UNCHANGED <<pos, misaligned>>
                    ELSE /\ pos' = pos + 1
                         /\ misaligned' = (misaligned \/ input.stream[pos].kind # "thread")
                         /\ UNCHANGED eof
        /\ thread_id' = tok.thread_id
        /\ threaded_trees' = IF HasKey(threaded_trees, tok.thread_id) THEN threaded_trees
                             ELSE Put(threaded_trees, tok.thread_id, BlocksTreeRoot)
        /\ threshold' = read_number + tok.blocks_number_in_thread
    /\ pc' = "block_loop"
    /\ UNCHANGED <<input, progress, i, read_number, blocks_counter, serialized_blocks,
                   serialized_descriptors, descriptors, identification_table, nodes, stats,
                   thread_statistics, parent_statistics, frame_statistics, spawned, joined,
                   wpc, wframe, result, cancelled_serial, observed_cancel, stored,
                   h_map, h_slots, h_log>>

\* line 335: the outer loop ends
ThreadsDone ==
    /\ pc = "thread_loop"
    /\ eof \/ read_number >= input.total_blocks_number
    /\ pc' = "final_check"
    /\ UNCHANGED <<input, progress, pos, eof, misaligned, i, read_number, threshold,
                   thread_id, blocks_counter, serialized_blocks, serialized_descriptors,
                   descriptors, identification_table, threaded_trees, nodes, stats,
                   thread_statistics, parent_statistics, frame_statistics, spawned, joined,
                   wpc, wframe, result, cancelled_serial, observed_cancel, stored,
                   h_map, h_slots, h_log>>

\* lines 347-459: one iteration of the inner loop up to the poll
ReadBlock ==
    /\ pc = "block_loop"
    /\ ~eof /\ read_number < threshold
    /\ read_number' = read_number + 1
    /\ IF AtEnd
          THEN /\ eof' = TRUE
               /\ Return(0)
               /\ UNCHANGED <<pos, misaligned, i, blocks_counter, descriptors,
                              identification_table, threaded_trees, nodes, stats,
                              thread_statistics, parent_statistics>>
          ELSE \E tok \in Reads("block", GarbageBlocks) :
               /\ pos' = pos + 1
               /\ misaligned' = (misaligned \/ input.stream[pos].kind # "block")
               /\ UNCHANGED eof
               /\ IF ZeroLength(tok.sz)
                     THEN /\ Return(0)
                          /\ UNCHANGED <<i, blocks_counter, descriptors,
                                         identification_table, threaded_trees, nodes, stats,
                                         thread_statistics, parent_statistics>>
                     ELSE LET b == BuildBlock(tok, thread_id) IN
                          /\ i' = i + tok.sz
                          /\ blocks_counter' = blocks_counter + 1
                          /\ descriptors' = b.descriptors
                          /\ identification_table' = b.identification_table
                          /\ threaded_trees' = b.threaded_trees
                          /\ nodes' = b.nodes
                          /\ stats' = b.stats
                          /\ thread_statistics' = b.thread_statistics
                          /\ parent_statistics' = b.parent_statistics
                          /\ pc' = "poll"
                          /\ UNCHANGED result
    /\ UNCHANGED <<input, progress, threshold, thread_id, serialized_blocks,
                   serialized_descriptors, frame_statistics, spawned, joined, wpc, wframe,
                   cancelled_serial, observed_cancel, stored, h_map, h_slots, h_log>>

\* line 347: the inner loop ends
BlocksOfThreadDone ==
    /\ pc = "block_loop"
    /\ eof \/ read_number >= threshold
    /\ pc' = "thread_loop"
    /\ UNCHANGED <<input, progress, pos, eof, misaligned, i, read_number, threshold,
                   thread_id, blocks_counter, serialized_blocks, serialized_descriptors,
                   descriptors, identification_table, threaded_trees, nodes, stats,
                   thread_statistics, parent_statistics, frame_statistics, spawned, joined,
                   wpc, wframe, result, cancelled_serial, observed_cancel, stored,
                   h_map, h_slots, h_log>>

\* lines 461-462: the poll; break leaves the inner loop only
Poll ==
    /\ pc = "poll"
    /\ IF progress < 0
          THEN pc' = "thread_loop" /\ observed_cancel' = TRUE
          ELSE pc' = "store" /\ UNCHANGED observed_cancel
    /\ UNCHANGED <<input, progress, pos, eof, misaligned, i, read_number, threshold,
                   thread_id, blocks_counter, serialized_blocks, serialized_descriptors,
                   descriptors, identification_table, threaded_trees, nodes, stats,
                   thread_statistics, parent_statistics, frame_statistics, spawned, joined,
                   wpc, wframe, result, cancelled_serial, stored, h_map, h_slots, h_log>>

\* line 463
BlockProgress(offset) == 10 + ((80 * offset) \div input.memory_size)

StoreProgress ==
    /\ pc = "store"
    /\ progress' = BlockProgress(i)
    /\ stored' = Append(stored, BlockProgress(i))
    /\ pc' = "block_loop"
    /\ UNCHANGED <<input, pos, eof, misaligned, i, read_number, threshold, thread_id,
                   blocks_counter, serialized_blocks, serialized_descriptors, descriptors,
                   identification_table, threaded_trees, nodes, stats, thread_statistics,
                   parent_statistics, frame_statistics, spawned, joined, wpc, wframe, result,
                   cancelled_serial, observed_cancel, h_map, h_slots, h_log>>

\* ------------------------------------------------------------------------
\* fillTreesFromFile: cancellation check, final stage, return
\* ------------------------------------------------------------------------
\* ~BlocksTree (profiler/reader.h, line 535): the three slots of every node are released
RECURSIVE ReleaseAll(_, _, _)
ReleaseAll(heap, ns, k) ==
    IF k > Len(ns) THEN heap
    ELSE ReleaseAll(release_stats(release_stats(release_stats(heap,
                        ns[k].per_thread_stats), ns[k].per_parent_stats),
                        ns[k].per_frame_stats), ns, k + 1)

\* the keys of a std::map in iteration order
RECURSIVE KeysInOrder(_)
KeysInOrder(S) == IF S = {} THEN <<>> ELSE <<Min(S)>> \o KeysInOrder(S \ {Min(S)})

Roots == KeysInOrder(DOMAIN threaded_trees)

\* lines 467-475
FinalCheck ==
    /\ pc = "final_check"
    /\ IF progress < 0
          THEN /\ serialized_blocks' = "cleared"
               /\ threaded_trees' = EmptyMap
               /\ stats' = ReleaseAll(stats, nodes, 1)
               /\ nodes' = <<>>
               /\ Return(0)
          ELSE /\ pc' = IF input.gather_statistics THEN "dispatch" ELSE "serial_final"
               /\ UNCHANGED <<serialized_blocks, threaded_trees, stats, nodes, result>>
    /\ UNCHANGED <<input, progress, pos, eof, misaligned, i, read_number, threshold,
                   thread_id, blocks_counter, serialized_descriptors, descriptors,
                   identification_table, thread_statistics, parent_statistics,
                   frame_statistics, spawned, joined, wpc, wframe, cancelled_serial,
                   observed_cancel, stored, h_map, h_slots, h_log>>

\* WorkerFrameMap capturing the map of the first root for every worker
WorkerFrameMapShared(t) == Min(DOMAIN threaded_trees)

\* lines 486-490: the scope maps a worker captures by reference
WorkerParentMap(t) == t
WorkerFrameMap(t) == t

\* lines 480-505: the dispatcher prepares one root and starts its worker
Dispatch ==
    /\ pc = "dispatch"
    /\ Len(spawned) < Len(Roots)
    /\ LET t == Roots[Len(spawned) + 1] IN
        /\ threaded_trees' = [threaded_trees EXCEPT ![t].thread_id = t]
        /\ frame_statistics' = IF HasKey(frame_statistics, t) THEN frame_statistics
                               ELSE Put(frame_statistics, t, EmptyMap)
        /\ parent_statistics' = Put(parent_statistics, t,
                                     IF HasKey(parent_statistics, t)
                                        THEN Cleared(parent_statistics[t]) ELSE EmptyMap)
        /\ spawned' = Append(spawned, t)
        /\ wpc' = Put(wpc, t, "parent")
        /\ wframe' = Put(wframe, t, 1)
    /\ UNCHANGED <<input, pc, progress, pos, eof, misaligned, i, read_number, threshold,
                   thread_id, blocks_counter, serialized_blocks, serialized_descriptors,
                   descriptors, identification_table, nodes, stats, thread_statistics,
                   joined, result, cancelled_serial, observed_cancel, stored,
                   h_map, h_slots, h_log>>

\* line 507: every worker has been started
DispatchDone ==
    /\ pc = "dispatch"
    /\ Len(spawned) = Len(Roots)
    /\ pc' = "join"
    /\ UNCHANGED <<input, progress, pos, eof, misaligned, i, read_number, threshold,
                   thread_id, blocks_counter, serialized_blocks, serialized_descriptors,
                   descriptors, identification_table, threaded_trees, nodes, stats,
                   thread_statistics, parent_statistics, frame_statistics, spawned, joined,
                   wpc, wframe, result, cancelled_serial, observed_cancel, stored,
                   h_map, h_slots, h_log>>

\* update_statistics_recursive(_stats_map, _current), lines 246-253
RECURSIVE update_statistics_recursive(_, _, _, _)
RECURSIVE UpdateChildren(_, _, _, _, _)
update_statistics_recursive(heap, map, ns, b) ==
    LET u == update_statistics(heap, map, N(ns, b))
        ns1 == [ns EXCEPT ![b + 1].per_frame_stats = u.stats]
    IN  UpdateChildren(u.heap, u.map, ns1, N(ns, b).children, 1)
UpdateChildren(heap, map, ns, children, k) ==
    IF k > Len(children) THEN [heap |-> heap, map |-> map, nodes |-> ns]
    ELSE LET r == update_statistics_recursive(heap, map, ns, children[k])
         IN  UpdateChildren(r.heap, r.map, r.nodes, children, k + 1)

WorkerUnchanged ==
    UNCHANGED <<input, pc, progress, pos, eof, misaligned, i, read_number, threshold,
                thread_id, blocks_counter, serialized_blocks, serialized_descriptors,
                descriptors, identification_table, thread_statistics, spawned, joined,
                result, cancelled_serial, observed_cancel, stored, h_map, h_slots, h_log>>

\* line 494: the worker of root t gives its current frame its per-parent record
WorkerParent(t) ==
    /\ HasKey(wpc, t) /\ wpc[t] = "parent"
    /\ wframe[t] <= Len(threaded_trees[t].tree.children)
    /\ LET frame == threaded_trees[t].tree.children[wframe[t]]
           m == WorkerParentMap(t)
           u == update_statistics(stats, parent_statistics[m], N(nodes, frame))
       IN  /\ stats' = u.heap
           /\ parent_statistics' = [parent_statistics EXCEPT ![m] = u.map]
           /\ nodes' = [nodes EXCEPT ![frame + 1].per_parent_stats = u.stats]
    /\ wpc' = [wpc EXCEPT ![t] = "frame"]
    /\ UNCHANGED <<threaded_trees, frame_statistics, wframe>>
    /\ WorkerUnchanged

\* lines 496-500: per-frame records of the whole subtree, then the root's depth
WorkerFrame(t) ==
    /\ HasKey(wpc, t) /\ wpc[t] = "frame"
    /\ LET frame == threaded_trees[t].tree.children[wframe[t]]
           m == WorkerFrameMap(t)
           r == update_statistics_recursive(stats, Cleared(frame_statistics[m]), nodes, frame)
       IN  /\ stats' = r.heap
           /\ frame_statistics' = [frame_statistics EXCEPT ![m] = r.map]
           /\ nodes' = r.nodes
           /\ threaded_trees' =
                 IF threaded_trees[t].tree.depth < N(nodes, frame).depth
                    THEN [threaded_trees EXCEPT ![t].tree.depth = N(nodes, frame).depth]
                    ELSE threaded_trees
    /\ wpc' = [wpc EXCEPT ![t] = "parent"]
    /\ wframe' = [wframe EXCEPT ![t] = @ + 1]
    /\ UNCHANGED parent_statistics
    /\ WorkerUnchanged

\* lines 492, 503: the frames are exhausted
WorkerDepth(t) ==
    /\ HasKey(wpc, t) /\ wpc[t] = "parent"
    /\ wframe[t] > Len(threaded_trees[t].tree.children)
    /\ threaded_trees' = [threaded_trees EXCEPT ![t].tree.depth = @ + 1]
    /\ wpc' = [wpc EXCEPT ![t] = "done"]
    /\ UNCHANGED <<nodes, stats, parent_statistics, frame_statistics, wframe>>
    /\ WorkerUnchanged

\* FinalProgress without the 90 the final stage starts from
FinalProgressNoBase(j, n) == (10 * j) \div n

\* lines 511, 531
FinalProgress(j, n) == 90 + ((10 * j) \div n)

\* Finished that does not wait: the join returns while the worker still runs
FinishedOrRunning(t) == HasKey(wpc, t)

\* line 510: t.join() returns once the worker of root t has left its function
Finished(t) == wpc[t] = "done"

\* lines 508-512: join the next worker, then report progress
Join ==
    /\ pc = "join"
    /\ joined < Len(spawned)
    /\ Finished(spawned[joined + 1])
    /\ joined' = joined + 1
    /\ progress' = FinalProgress(joined + 1, Len(spawned))
    /\ stored' = Append(stored, FinalProgress(joined + 1, Len(spawned)))
    /\ UNCHANGED <<input, pc, pos, eof, misaligned, i, read_number, threshold, thread_id,
                   blocks_counter, serialized_blocks, serialized_descriptors, descriptors,
                   identification_table, threaded_trees, nodes, stats, thread_statistics,
                   parent_statistics, frame_statistics, spawned, wpc, wframe, result,
                   cancelled_serial, observed_cancel, h_map, h_slots, h_log>>

\* lines 523-529: the depth of a root over its frames
RootDepth(ns, root) == ChildrenDepth(ns, root.tree.children, 1, root.tree.depth) + 1

\* lines 516-532: without statistics, one root per iteration
SerialFinal ==
    /\ pc = "serial_final"
    /\ joined < Len(Roots)
    /\ LET t == Roots[joined + 1] IN
        threaded_trees' = [threaded_trees EXCEPT
                              ![t].thread_id = t,
                              ![t].tree.depth = RootDepth(nodes, threaded_trees[t])]
    /\ joined' = joined + 1
    /\ progress' = FinalProgress(joined + 1, Len(Roots))
    /\ stored' = Append(stored, FinalProgress(joined + 1, Len(Roots)))
    /\ UNCHANGED <<input, pc, pos, eof, misaligned, i, read_number, threshold, thread_id,
                   blocks_counter, serialized_blocks, serialized_descriptors, descriptors,
                   identification_table, nodes, stats, thread_statistics,
                   parent_statistics, frame_statistics, spawned, wpc, wframe, result,
                   cancelled_serial, observed_cancel, h_map, h_slots, h_log>>

\* ReturnValue that honours a cancellation seen at the return
ReturnValueUnlessCancelled == IF progress < 0 THEN 0 ELSE blocks_counter

\* line 537: the value returned; progress is not read after line 467
ReturnValue == blocks_counter

\* line 537
ReturnCount ==
    /\ \/ pc = "join" /\ joined = Len(spawned)
       \/ pc = "serial_final" /\ joined = Len(Roots)
    /\ Return(ReturnValue)
    /\ UNCHANGED <<input, progress, pos, eof, misaligned, i, read_number, threshold,
                   thread_id, blocks_counter, serialized_blocks, serialized_descriptors,
                   descriptors, identification_table, threaded_trees, nodes, stats,
                   thread_statistics, parent_statistics, frame_statistics, spawned, joined,
                   wpc, wframe, cancelled_serial, observed_cancel, stored,
                   h_map, h_slots, h_log>>

\* ------------------------------------------------------------------------
\* The caller: a negative store into the progress cell (spec section 5)
\* ------------------------------------------------------------------------
SerialLoops == {"desc_loop", "thread_loop", "block_loop", "poll", "store"}

Cancel ==
    /\ input.caller_cancels
    /\ pc \notin {"start", "done"}
    /\ progress >= 0
    /\ progress' = -1
    /\ cancelled_serial' = (cancelled_serial \/ pc \in SerialLoops)
    /\ UNCHANGED <<input, pc, pos, eof, misaligned, i, read_number, threshold, thread_id,
                   blocks_counter, serialized_blocks, serialized_descriptors, descriptors,
                   identification_table, threaded_trees, nodes, stats, thread_statistics,
                   parent_statistics, frame_statistics, spawned, joined, wpc, wframe,
                   result, observed_cancel, stored, h_map, h_slots, h_log>>

\* ------------------------------------------------------------------------
\* The inputs explored
\* ------------------------------------------------------------------------
\* every close-ordered interval sequence of up to MaxBlocks blocks, and every
\* sequence at all of fewer blocks; one thread, no display names
TimingInputs ==
    UNION {{MkInput(FileDescs, [k \in 1..n |-> Blk(1, 1, 0, ivs[k][1], ivs[k][2], "")],
                    g, FALSE) :
               ivs \in {f \in [1..n -> Intervals] : WellFormed(f) \/ n < MaxBlocks},
               g \in BOOLEAN} : n \in 1..MaxBlocks}

\* the thread of the k-th block: one thread, or two threads taking turns
ThreadOf(pattern, k) == IF pattern = 1 THEN 1 ELSE 1 + ((k + 1) % 2)

Cap(x) == IF x > MaxTime THEN MaxTime ELSE x

\* the interval of the k-th of n blocks: side by side, or the last around the others
TimeOf(template, k, n) ==
    IF template = 2 /\ k = n /\ n > 1 THEN <<0, MaxTime>> ELSE <<Cap(k - 1), Cap(k)>>

\* every choice of display names and raw descriptor ids; two threads side by
\* side, or one thread whose last block encloses the others
InternInputs ==
    UNION {{MkInput(FileDescs,
                    [k \in 1..n |-> Blk(ThreadOf(p, k), 1, ids[k],
                                        TimeOf(p, k, n)[1], TimeOf(p, k, n)[2], nm[k])],
                    TRUE, FALSE) :
               nm \in [1..n -> Names], ids \in [1..n -> {0, 1}], p \in {1, 2}} :
              n \in 1..MaxBlocks}

\* plain files, with a caller that cancels (c) or not
PlainInputs(c) ==
    UNION {{MkInput(FileDescs,
                    [k \in 1..n |-> Blk(ThreadOf(p, k), 1, 0, Cap(k - 1), Cap(k), "")],
                    g, c) :
               p \in {1, 2}, g \in BOOLEAN} : n \in 1..MaxBlocks}

\* the stream of f ends after any number of its records
Truncated(F) ==
    UNION {{[f EXCEPT !.stream = SubSeq(f.stream, 1, p)] : p \in 0..(Len(f.stream) - 1)} :
              f \in F}

\* one descriptor or block record of f has the length prefix 0
ZeroSize(F) ==
    UNION {{[f EXCEPT !.stream[p].sz = 0] :
               p \in {q \in 1..Len(f.stream) : f.stream[q].kind # "thread"}} : f \in F}

\* every combination of zero and non-zero header fields; a file that cannot be opened
HeaderInputs ==
    LET f == MkInput(FileDescs, <<Blk(1, 1, 0, 0, 1, "")>>, FALSE, FALSE)
    IN  {[f EXCEPT !.total_blocks_number = a, !.memory_size = b,
                   !.total_descriptors_number = c * 2, !.descriptors_memory_size = d * 2] :
            a \in {0, 1}, b \in {0, 1}, c \in {0, 1}, d \in {0, 1}}
        \cup {[f EXCEPT !.open = FALSE]}

\* files that are cut short or malformed
BrokenInputs == Truncated(PlainInputs(FALSE)) \cup ZeroSize(PlainInputs(FALSE))
                \cup HeaderInputs

\* Spec: plain and broken files, the caller may cancel
Inputs == PlainInputs(TRUE) \cup PlainInputs(FALSE) \cup Truncated(PlainInputs(TRUE))
          \cup BrokenInputs

\* SpecTree: every timing; SpecNames: every naming; the caller does not cancel
TreeInputs == TimingInputs \cup BrokenInputs
NamesInputs == InternInputs \cup BrokenInputs

\* a file the scope-map harness does not read
NoInput == MkInput(FileDescs, <<>>, FALSE, FALSE)

\* ------------------------------------------------------------------------
\* Specifications
\* ------------------------------------------------------------------------
InitWith(f) ==
    /\ input = f
    /\ pc = "start"
    /\ progress = 0
    /\ pos = 1 /\ eof = FALSE /\ misaligned = FALSE
    /\ i = 0 /\ read_number = 0 /\ threshold = 0 /\ thread_id = 0 /\ blocks_counter = 0
    /\ serialized_blocks = "caller" /\ serialized_descriptors = "caller"
    /\ descriptors = <<>>
    /\ identification_table = EmptyMap
    /\ threaded_trees = EmptyMap
    /\ nodes = <<>>
    /\ stats = <<>>
    /\ thread_statistics = EmptyMap /\ parent_statistics = EmptyMap
    /\ frame_statistics = EmptyMap
    /\ spawned = <<>> /\ joined = 0
    /\ wpc = EmptyMap /\ wframe = EmptyMap
    /\ result = -1
    /\ cancelled_serial = FALSE /\ observed_cancel = FALSE
    /\ stored = <<>>
    /\ h_map = EmptyMap /\ h_slots = <<>> /\ h_log = <<>>

Init == \E f \in Inputs : InitWith(f)

Next ==
    \/ Open
    \/ Header
    \/ ReadDescriptor
    \/ DescriptorsDone
    \/ ReadThread
    \/ ThreadsDone
    \/ ReadBlock
    \/ BlocksOfThreadDone
    \/ Poll
    \/ StoreProgress
    \/ FinalCheck
    \/ Dispatch
    \/ DispatchDone
    \/ \E t \in ThreadIds : WorkerParent(t)
    \/ \E t \in ThreadIds : WorkerFrame(t)
    \/ \E t \in ThreadIds : WorkerDepth(t)
    \/ Join
    \/ SerialFinal
    \/ ReturnCount
    \/ Cancel

Spec == Init /\ [][Next]_vars

\* fillTreesFromFile with a caller that leaves the progress cell alone
NextQuiet ==
    \/ Open
    \/ Header
    \/ ReadDescriptor
    \/ DescriptorsDone
    \/ ReadThread
    \/ ThreadsDone
    \/ ReadBlock
    \/ BlocksOfThreadDone
    \/ Poll
    \/ StoreProgress
    \/ FinalCheck
    \/ Dispatch
    \/ DispatchDone
    \/ \E t \in ThreadIds : WorkerParent(t)
    \/ \E t \in ThreadIds : WorkerFrame(t)
    \/ \E t \in ThreadIds : WorkerDepth(t)
    \/ Join
    \/ SerialFinal
    \/ ReturnCount

InitTree == \E f \in TreeInputs : InitWith(f)
SpecTree == InitTree /\ [][NextQuiet]_vars

InitNames == \E f \in NamesInputs : InitWith(f)
SpecNames == InitNames /\ [][NextQuiet]_vars

\* SpecFlag: every file with and without statistics: every timing, and every
\* naming of fewer than MaxBlocks blocks, of one thread or of two taking
\* turns, the last block around the earlier blocks of its thread
NamedFlagInputs ==
    UNION {{MkInput(FileDescs,
                    [k \in 1..n |-> Blk(ThreadOf(q, k), 1, ids[k],
                                        TimeOf(2, k, n)[1], TimeOf(2, k, n)[2], nm[k])],
                    g, FALSE) :
               nm \in [1..n -> Names], ids \in [1..n -> {0, 1}], q \in {1, 2},
               g \in BOOLEAN} :
              n \in 1..(MaxBlocks - 1)}

FlagInputs == TimingInputs \cup NamedFlagInputs

InitFlag == \E f \in FlagInputs : InitWith(f)
SpecFlag == InitFlag /\ [][NextQuiet]_vars

\* ------------------------------------------------------------------------
\* The scope-map harness: update_statistics and release_stats on one StatsMap
\* ------------------------------------------------------------------------
MainUnchanged ==
    UNCHANGED <<input, pc, progress, pos, eof, misaligned, i, read_number, threshold,
                thread_id, blocks_counter, serialized_blocks, serialized_descriptors,
                descriptors, identification_table, threaded_trees, nodes,
                thread_statistics, parent_statistics, frame_statistics, spawned, joined,
                wpc, wframe, result, cancelled_serial, observed_cancel, stored>>

\* a block of identity id and duration d gets its record from the map; the
\* pointer returned is kept in a new slot.  A map entry whose record has been
\* deleted is dangling and is not used again.
HUpdate(id, d) ==
    /\ Len(h_log) < MaxUpdates
    /\ HasKey(h_map, id) => ~stats[h_map[id]].deleted
    /\ LET current == BlocksTree([id |-> id, begin |-> 0, end |-> d, name |-> ""],
                                 Len(h_log))
           u == update_statistics(stats, h_map, current)
       IN  /\ stats' = u.heap
           /\ h_map' = u.map
           /\ h_slots' = Append(h_slots, u.stats)
           /\ h_log' = Append(h_log, [id |-> id, duration |-> d,
                                      block_index |-> Len(h_log)])
    /\ MainUnchanged

\* the holder of slot k releases it
HRelease(k) ==
    /\ k \in 1..Len(h_slots)
    /\ h_slots[k] # 0
    /\ stats' = release_stats(stats, h_slots[k])
    /\ h_slots' = [h_slots EXCEPT ![k] = 0]
    /\ UNCHANGED <<h_map, h_log>>
    /\ MainUnchanged

NextStats ==
    \/ \E id \in {0, 1}, d \in 0..MaxDuration : HUpdate(id, d)
    \/ \E k \in 1..MaxUpdates : HRelease(k)

SpecStats == InitWith(NoInput) /\ [][NextStats]_vars

\* ------------------------------------------------------------------------
\* C3, C4: the statistics record of one identity in one scope map
\* ------------------------------------------------------------------------
\* the calls of the harness made for identity id, and the slots still held on record r
CallsFor(id) == {k \in 1..Len(h_log) : h_log[k].id = id}
Refs(r) == {k \in 1..Len(h_slots) : h_slots[k] = r}

RECURSIVE SumDurations(_)
SumDurations(ks) ==
    IF ks = {} THEN 0 ELSE h_log[Min(ks)].duration + SumDurations(ks \ {Min(ks)})

MaxDur(ks) == Max({h_log[k].duration : k \in ks})
MinDur(ks) == Min({h_log[k].duration : k \in ks})

\* C3: after N updates for one identity (none of the pointers released yet) the
\* record has calls = N, total = the sum of the durations, max and min = the
\* largest and smallest duration, each attributed to the block index of the
\* first update that had that duration.
C3_StatisticsCorrect ==
    \A id \in DOMAIN h_map :
        LET ks == CallsFor(id)
            r == stats[h_map[id]]
        IN  (\A k \in ks : h_slots[k] # 0) =>
                /\ r.calls_number = Cardinality(ks)
                /\ r.total_duration = SumDurations(ks)
                /\ r.max_duration = MaxDur(ks)
                /\ r.max_duration_block =
                       h_log[Min({k \in ks : h_log[k].duration = MaxDur(ks)})].block_index
                /\ r.min_duration = MinDur(ks)
                /\ r.min_duration_block =
                       h_log[Min({k \in ks : h_log[k].duration = MinDur(ks)})].block_index

\* three updates of one identity, the maximum reached twice and not by the first
C3_Witness ==
    \E id \in DOMAIN h_map :
        LET ks == CallsFor(id) IN
        /\ Cardinality(ks) >= 3
        /\ \A k \in ks : h_slots[k] # 0
        /\ \E j, k \in ks : /\ j < k
                            /\ h_log[j].duration = MaxDur(ks)
                            /\ h_log[k].duration = MaxDur(ks)
        /\ h_log[Min(ks)].duration < MaxDur(ks)

\* C4 as claimed: while a record stays referenced its calls number never
\* decreases, and it is deleted exactly when no slot references it any more.
C4_CallsNeverDecrease ==
    [][\A r \in 1..Len(stats) :
          /\ (Refs(r) # {} /\ Refs(r)' # {}) =>
                 stats'[r].calls_number >= stats[r].calls_number
          /\ stats'[r].deleted <=> (Refs(r)' = {})]_vars

\* ------------------------------------------------------------------------
\* C1, C8, C9: the shape of the trees
\* ------------------------------------------------------------------------
IV(b) == <<N(nodes, b).node.begin, N(nodes, b).node.end>>
ChildrenOf(b) == N(nodes, b).children
FramesOf(t) == threaded_trees[t].tree.children
BlockIndices == {k - 1 : k \in 1..Len(nodes)}

\* the blocks of the subtree under b, and of the tree of thread t
RECURSIVE SubtreeNodes(_)
SubtreeNodes(b) == {b} \cup UNION {SubtreeNodes(c) : c \in Range(ChildrenOf(b))}
ThreadNodes(t) == UNION {SubtreeNodes(c) : c \in Range(FramesOf(t))}

\* the blocks of a thread arrived in close order (block indices are arrival order)
CloseOrdered(S) ==
    \A x, y \in S : x < y =>
        /\ ~Encloses(IV(x), IV(y))
        /\ Encloses(IV(y), IV(x)) \/ IV(x)[2] <= IV(y)[1]

\* y is the smallest interval of S around x
SmallestEncloser(S, y, x) ==
    /\ y # x
    /\ Encloses(IV(y), IV(x))
    /\ \A z \in S \ {x} : Encloses(IV(z), IV(x)) => Encloses(IV(z), IV(y))

NestingMatches(S, t) ==
    \A x \in S :
        /\ \A y \in S \ {x} :
               (x \in Range(ChildrenOf(y))) <=> SmallestEncloser(S, y, x)
        /\ (\A y \in S \ {x} : ~Encloses(IV(y), IV(x))) => x \in Range(FramesOf(t))

\* C1 as claimed: when all blocks of a close-ordered input are processed, X is a
\* child of Y exactly when Y is the smallest interval that encloses X, and a
\* block that nothing encloses is a child of the thread's root.
C1_RoundTripNesting ==
    pc = "done" /\ result > 0 =>
        \A t \in DOMAIN threaded_trees :
            CloseOrdered(ThreadNodes(t)) => NestingMatches(ThreadNodes(t), t)

\* no pair is nested and disjoint at once: no block of zero duration lies at the
\* begin time of a block that encloses it
Unambiguous(S) ==
    \A x, y \in S : x # y /\ Encloses(IV(y), IV(x)) => IV(y)[1] < IV(x)[2]

\* C1 amended: the same for close-ordered inputs in which no block of zero
\* duration lies at the begin time of a block that encloses it; it holds after
\* every block, hence when all are processed.
C1_NestingUnambiguous ==
    \A t \in DOMAIN threaded_trees :
        CloseOrdered(ThreadNodes(t)) /\ Unambiguous(ThreadNodes(t)) =>
            NestingMatches(ThreadNodes(t), t)

\* the scenario of spec section 8: B, C, A arrive and A has the children B, C
C1_Witness ==
    /\ pc = "done" /\ result = 3
    /\ \E t \in DOMAIN threaded_trees :
        /\ CloseOrdered(ThreadNodes(t)) /\ Unambiguous(ThreadNodes(t))
        /\ FramesOf(t) = <<2>>
        /\ ChildrenOf(2) = <<0, 1>>
        /\ IV(0)[2] < IV(1)[1]

\* the number of positions at which block b hangs, under a root or under a block
Occurrences(b) ==
    Cardinality({q \in (DOMAIN threaded_trees) \X (1..Len(nodes)) :
                    q[2] <= Len(FramesOf(q[1])) /\ FramesOf(q[1])[q[2]] = b})
    + Cardinality({q \in BlockIndices \X (1..Len(nodes)) :
                      q[2] <= Len(ChildrenOf(q[1])) /\ ChildrenOf(q[1])[q[2]] = b})

\* the number of nodes (counted by position) under the children from the k-th on
RECURSIVE CountNodes(_, _)
CountNodes(children, k) ==
    IF k > Len(children) THEN 0
    ELSE 1 + CountNodes(ChildrenOf(children[k]), 1) + CountNodes(children, k + 1)

RECURSIVE SumOver(_, _)
SumOver(f, S) == IF S = {} THEN 0 ELSE f[Min(S)] + SumOver(f, S \ {Min(S)})

NonRootNodes ==
    SumOver([t \in DOMAIN threaded_trees |-> CountNodes(FramesOf(t), 1)],
            DOMAIN threaded_trees)

\* C8: every block decoded so far hangs at exactly one position of exactly one
\* tree, and a non-zero return value is the number of non-root nodes of all trees.
C8_CountEqualsNodes ==
    /\ \A b \in BlockIndices :
          /\ Occurrences(b) = 1
          /\ \E t \in DOMAIN threaded_trees : b \in ThreadNodes(t)
    /\ pc = "done" /\ result # 0 => result = NonRootNodes /\ result = Len(nodes)

\* three blocks returned, one kept as a sibling and one adopted by the third
C8_Witness ==
    /\ pc = "done" /\ result = 3
    /\ \E t \in DOMAIN threaded_trees :
          /\ Len(FramesOf(t)) = 2
          /\ \E b \in Range(FramesOf(t)) : Len(ChildrenOf(b)) = 1

\* C9: after every block of a close-ordered input, the children of every node
\* and of every root are in nondecreasing begin order, and no two siblings
\* overlap partially.
Sorted(children) ==
    \A j, k \in 1..Len(children) : j < k =>
        /\ IV(children[j])[1] <= IV(children[k])[1]
        /\ \/ Disjoint(IV(children[j]), IV(children[k]))
           \/ Encloses(IV(children[j]), IV(children[k]))
           \/ Encloses(IV(children[k]), IV(children[j]))

C9_SiblingOrdering ==
    \A t \in DOMAIN threaded_trees :
        CloseOrdered(ThreadNodes(t)) =>
            /\ Sorted(FramesOf(t))
            /\ \A b \in ThreadNodes(t) : Sorted(ChildrenOf(b))

\* a root with two frames, the second with two children, all in order
C9_Witness ==
    \E t \in DOMAIN threaded_trees :
        /\ CloseOrdered(ThreadNodes(t))
        /\ Len(FramesOf(t)) >= 1
        /\ \E b \in ThreadNodes(t) :
              /\ Len(ChildrenOf(b)) = 2
              /\ IV(ChildrenOf(b)[1])[1] < IV(ChildrenOf(b)[2])[1]

\* ------------------------------------------------------------------------
\* C2, C5, C6: cancellation, header rejection, premature end of stream
\* ------------------------------------------------------------------------
\* the records of one kind in the stream of the file
IsBlockTok(x) == x.kind = "block"
IsDescTok(x) == x.kind = "desc"
BlockToks == SelectSeq(input.stream, IsBlockTok)
DescToks == SelectSeq(input.stream, IsDescTok)

\* the file holds every record its header declares, none of length 0
CompleteFile ==
    /\ input.open
    /\ Len(DescToks) = input.total_descriptors_number
    /\ Len(BlockToks) = input.total_blocks_number
    /\ \A k \in 1..Len(input.stream) :
           input.stream[k].kind # "thread" => input.stream[k].sz > 0

\* C2 as claimed (for a file with nothing wrong, every read at a record
\* boundary): a negative value stored by the caller while the operation is in
\* its descriptor loop or block loop makes it return 0 with an empty
\* thread-root map.
C2_Cancellation ==
    pc = "done" /\ cancelled_serial /\ CompleteFile /\ ~misaligned =>
        result = 0 /\ threaded_trees = EmptyMap

ZeroHeader ==
    /\ input.open
    /\ \/ input.total_blocks_number = 0
       \/ input.memory_size = 0
       \/ input.total_descriptors_number = 0
       \/ input.descriptors_memory_size = 0

\* C5 as claimed: with a zero header field the operation returns 0 and the two
\* buffers, the descriptor table and the thread-root map are as the caller
\* passed them.
C5_ZeroCountRejection ==
    pc = "done" /\ ZeroHeader =>
        /\ result = 0
        /\ serialized_blocks = "caller"
        /\ serialized_descriptors = "caller"
        /\ descriptors = <<>>
        /\ threaded_trees = EmptyMap

\* the stream ends after k >= 1 complete block records, fewer than declared;
\* nothing else is wrong with the file and the caller does not cancel
EndsEarly ==
    /\ input.open /\ ~ZeroHeader /\ ~input.caller_cancels
    /\ Len(DescToks) = input.total_descriptors_number
    /\ \A k \in 1..Len(input.stream) :
           input.stream[k].kind # "thread" => input.stream[k].sz > 0
    /\ Len(BlockToks) >= 1
    /\ Len(BlockToks) < input.total_blocks_number

\* C6 as claimed: a stream that ends after k complete block records makes the
\* operation return k, the blocks built so far, with their trees kept.
C6_PrematureEndNonFatal ==
    pc = "done" /\ EndsEarly =>
        /\ result = Len(BlockToks)
        /\ Len(nodes) = Len(BlockToks)
        /\ NonRootNodes = Len(BlockToks)

\* ------------------------------------------------------------------------
\* C7: the interner
\* ------------------------------------------------------------------------
\* the raw descriptor id of block b in the file (the reads are aligned)
RawId(b) == BlockToks[b + 1].id
NameOf(b) == N(nodes, b).node.name
IdOf(b) == N(nodes, b).node.id

\* C7: blocks with one non-empty display name have one specialized id; a name
\* not seen before gets the id Len(descriptors), greater than every id in use
\* and different from the id of every other name; the entry appended for it is
\* the entry of the block's raw descriptor; no entry of the descriptor list or
\* of the table is ever removed or changed, and no block changes its id again.
C7_Interning ==
    [][/\ \A a, b \in BlockIndices' :
             NameOf(a)' # "" /\ NameOf(a)' = NameOf(b)' => IdOf(a)' = IdOf(b)'
       /\ \A nm \in (DOMAIN identification_table') \ (DOMAIN identification_table) :
             LET id == identification_table'[nm] IN
             /\ id = Len(descriptors)
             /\ \A b \in BlockIndices : IdOf(b) < id
             /\ \A other \in DOMAIN identification_table :
                    identification_table[other] < id
             /\ Len(descriptors') = Len(descriptors) + 1
             /\ descriptors'[id + 1] = descriptors[input.stream[pos].id + 1]
             /\ nodes'[blocks_counter + 1].node.id = id
       /\ Len(descriptors') >= Len(descriptors)
       /\ \A k \in 1..Len(descriptors) : descriptors'[k] = descriptors[k]
       /\ \A nm \in DOMAIN identification_table :
             /\ nm \in DOMAIN identification_table'
             /\ identification_table'[nm] = identification_table[nm]
       /\ \A b \in BlockIndices : IdOf(b)' = IdOf(b)]_vars

\* two blocks of one name with different raw descriptor ids share an id, and a
\* second name has another one
C7_Witness ==
    /\ \E a, b \in BlockIndices :
          /\ NameOf(a) # "" /\ NameOf(a) = NameOf(b)
          /\ RawId(a) # RawId(b)
          /\ IdOf(a) = IdOf(b)
    /\ \E nm1, nm2 \in DOMAIN identification_table :
          identification_table[nm1] < identification_table[nm2]

\* ------------------------------------------------------------------------
\* C10: the memory the dispatcher and the workers touch in their next step
\* ------------------------------------------------------------------------
\* Objects: <<"root", t>> a BlocksTreeRoot with its child vector, <<"node", b>>
\* a BlocksTree, <<"rec", r>> a BlockStatistics, <<"pmap", t>> and <<"fmap", t>>
\* the StatsMap values of parent_statistics and frame_statistics,
\* <<"parent_statistics">> and <<"frame_statistics">> the two std::map
\* containers.  The progress cell is atomic and is left out.
NoAccess == [reads |-> {}, writes |-> {}]

\* lines 480-504 for the next root
DispatcherAccess ==
    IF pc = "dispatch" /\ Len(spawned) < Len(Roots)
       THEN LET t == Roots[Len(spawned) + 1] IN
            [reads |-> {},
             writes |-> {<<"root", t>>, <<"pmap", t>>}
                        \cup (IF HasKey(frame_statistics, t) THEN {}
                                                             ELSE {<<"frame_statistics">>})
                        \cup (IF HasKey(parent_statistics, t) THEN {}
                                                              ELSE {<<"parent_statistics">>})]
       ELSE NoAccess

\* lines 492-503 for the next step of the worker of root t
WorkerAccess(t) ==
    IF ~HasKey(wpc, t) \/ wpc[t] = "done" THEN NoAccess
    ELSE IF wpc[t] = "parent" /\ wframe[t] > Len(FramesOf(t))
       THEN [reads |-> {<<"root", t>>}, writes |-> {<<"root", t>>}]
    ELSE LET frame == FramesOf(t)[wframe[t]] IN
         IF wpc[t] = "parent"
            THEN LET m == parent_statistics[WorkerParentMap(t)] IN
                 [reads |-> {<<"root", t>>, <<"node", frame>>},
                  writes |-> {<<"pmap", WorkerParentMap(t)>>, <<"node", frame>>}
                             \cup (IF HasKey(m, IdOf(frame)) THEN {<<"rec", m[IdOf(frame)]>>}
                                                             ELSE {})]
            ELSE [reads |-> {<<"root", t>>},
                  writes |-> {<<"fmap", WorkerFrameMap(t)>>, <<"root", t>>}
                             \cup {<<"node", b>> : b \in SubtreeNodes(frame)}]

Conflict(a, b) ==
    \/ a.writes \cap (b.reads \cup b.writes) # {}
    \/ b.writes \cap a.reads # {}

\* the records that only nodes of the tree of thread t point to
RecordsOf(t) ==
    {r \in 1..Len(stats) :
        \A b \in BlockIndices :
            r \in {N(nodes, b).per_thread_stats, N(nodes, b).per_parent_stats,
                   N(nodes, b).per_frame_stats} => b \in ThreadNodes(t)}

Own(t) == {<<"root", t>>, <<"pmap", t>>, <<"fmap", t>>}
          \cup {<<"node", b>> : b \in ThreadNodes(t)}
          \cup {<<"rec", r>> : r \in RecordsOf(t)}

\* C10: at no point of the parallel stage do two workers, or a worker and the
\* dispatcher, have next steps of which one writes what the other reads or
\* writes, and every worker touches only the root, the nodes, the records and
\* the scope maps of its own thread.
C10_RaceFree ==
    /\ \A t \in DOMAIN wpc :
          /\ ~Conflict(WorkerAccess(t), DispatcherAccess)
          /\ \A u \in (DOMAIN wpc) \ {t} : ~Conflict(WorkerAccess(t), WorkerAccess(u))
    /\ \A t \in DOMAIN wpc :
          WorkerAccess(t).reads \cup WorkerAccess(t).writes \subseteq Own(t)

\* two workers are in the middle of their frames at the same time, each about
\* to write the per-frame records of a subtree
C10_Witness ==
    \E t, u \in DOMAIN wpc :
        /\ t # u
        /\ wpc[t] = "frame" /\ wpc[u] = "frame"
        /\ stats # <<>>

\* ------------------------------------------------------------------------
\* C11: the outcome of the parallel stage does not depend on the schedule
\* ------------------------------------------------------------------------
\* the fields of the record a slot points to (pointers themselves depend on
\* the order of the allocations)
Fields(heap, p) ==
    IF p = 0 THEN <<>>
    ELSE <<heap[p].calls_number, heap[p].total_duration,
           heap[p].min_duration, heap[p].min_duration_block,
           heap[p].max_duration, heap[p].max_duration_block>>

\* root t handled alone, start to end, on a heap of its own: the per-parent
\* records of its frames with the depth over them, and the per-frame records
\* of the subtree of one frame
AloneParents(t) == GatherWithinParent(<<>>, EmptyMap, nodes, FramesOf(t), 1, 0)
AloneFrame(frame) == update_statistics_recursive(<<>>, EmptyMap, nodes, frame)

\* the outcome for root t is the outcome of handling t alone
SameAsAlone(t) ==
    LET g == AloneParents(t) IN
    /\ threaded_trees[t].tree.depth = g.depth + 1
    /\ threaded_trees[t].thread_id = t
    /\ \A f \in Range(FramesOf(t)) :
          /\ Fields(stats, N(nodes, f).per_parent_stats)
                = Fields(g.heap, N(g.nodes, f).per_parent_stats)
          /\ \A f2 \in Range(FramesOf(t)) :
                (N(nodes, f).per_parent_stats = N(nodes, f2).per_parent_stats)
                    <=> (N(g.nodes, f).per_parent_stats = N(g.nodes, f2).per_parent_stats)
          /\ LET r == AloneFrame(f) IN
             \A b \in SubtreeNodes(f) :
                /\ Fields(stats, N(nodes, b).per_frame_stats)
                      = Fields(r.heap, N(r.nodes, b).per_frame_stats)
                /\ \A c \in SubtreeNodes(f) :
                      (N(nodes, b).per_frame_stats = N(nodes, c).per_frame_stats)
                          <=> (N(r.nodes, b).per_frame_stats = N(r.nodes, c).per_frame_stats)

\* what the serial phase has built and the final stage must leave alone: the
\* block, index, depth, children and per-thread record of every node, and
\* the frames and name of every root
Built(ns, heap, trees) ==
    <<[k \in 1..Len(ns) |-> <<ns[k].node, ns[k].block_index, ns[k].depth, ns[k].children,
                               ns[k].per_thread_stats,
                               Fields(heap, ns[k].per_thread_stats)>>],
      [t \in DOMAIN trees |-> <<trees[t].tree.children, trees[t].thread_name>>]>>

ParallelStage == {"dispatch", "join"}

StageKeepsBuilt ==
    (pc \in ParallelStage) =>
        (Built(nodes, stats, threaded_trees)' = Built(nodes, stats, threaded_trees))

\* C11: with statistics requested, a non-zero value is returned only when
\* every root has a worker and every worker has finished; whatever the order
\* of the workers' steps, the depth of every root and the fields and sharing
\* of every per-parent and per-frame record are those of handling each root
\* alone; and no step of the stage changes the shape of a tree, the depth of
\* a node or a per-thread record.
C11_SchedulingIndependence ==
    /\ [](pc = "done" /\ result > 0 /\ input.gather_statistics =>
            /\ Range(spawned) = DOMAIN threaded_trees
            /\ joined = Len(spawned)
            /\ \A t \in DOMAIN threaded_trees : wpc[t] = "done" /\ SameAsAlone(t))
    /\ [][StageKeepsBuilt]_vars

\* the operation has returned after the worker of the second root allocated
\* its first record before the worker of the first root did, and a record of
\* the first root counts two blocks of one frame
C11_Witness ==
    /\ pc = "done" /\ result > 0 /\ input.gather_statistics
    /\ \E t, u \in DOMAIN threaded_trees :
          /\ t < u
          /\ FramesOf(t) # <<>> /\ FramesOf(u) # <<>>
          /\ N(nodes, FramesOf(u)[1]).per_parent_stats
                < N(nodes, FramesOf(t)[1]).per_parent_stats
          /\ \E b \in ThreadNodes(t) :
                stats[N(nodes, b).per_frame_stats].calls_number = 2

\* ------------------------------------------------------------------------
\* C12: a record with the length prefix 0
\* ------------------------------------------------------------------------
\* the positions of the descriptor and block records of length 0 in a file
\* that opens and has no zero header field
ZeroRecords ==
    IF input.open /\ ~ZeroHeader
       THEN {k \in 1..Len(input.stream) :
                input.stream[k].kind # "thread" /\ input.stream[k].sz = 0}
       ELSE {}

\* C12: when a descriptor or block record has the length prefix 0 the
\* operation returns 0, and it returns on reading that prefix: the records
\* before it have been decoded, none after it has been read.
C12_ZeroLengthFatal ==
    pc = "done" /\ ZeroRecords # {} =>
        /\ result = 0
        /\ pos = Min(ZeroRecords) + 1
        /\ Len(nodes) = Len(SelectSeq(SubSeq(input.stream, 1, Min(ZeroRecords) - 1),
                                      IsBlockTok))

\* two blocks had been decoded and attached when the empty record was read
C12_Witness ==
    /\ pc = "done" /\ ZeroRecords # {}
    /\ result = 0
    /\ Len(nodes) = 2
    /\ threaded_trees # EmptyMap

\* ------------------------------------------------------------------------
\* C13: which siblings a new block adopts
\* ------------------------------------------------------------------------
\* a block record has just been decoded and attached (lines 363-459)
BlockAttached == pc = "block_loop" /\ pc' = "poll"

\* the siblings accumulated for the current thread before the step
Siblings == FramesOf(thread_id)
BeginOf(ns, b) == N(ns, b).node.begin
EndOf(ns, b) == N(ns, b).node.end

\* the new block starts before the last accumulated sibling ends
NestsAround(t0) ==
    Siblings # <<>> /\ t0 < EndOf(nodes, Siblings[Len(Siblings)])

\* the boundary: the last position before the last sibling whose entry begins
\* at or before t0 (0 if there is none), and the same with `before` only
BoundaryAtOrBefore(t0) ==
    Max({0} \cup {k \in 1..(Len(Siblings) - 1) : BeginOf(nodes, Siblings[k]) <= t0})
BoundaryBefore(t0) ==
    Max({0} \cup {k \in 1..(Len(Siblings) - 1) : BeginOf(nodes, Siblings[k]) < t0})

\* the entries up to position k stay, followed by the new block, and the
\* entries after position k are the children of the new block, in their order
SplitAt(k) ==
    /\ FramesOf(thread_id)' = Append(SubSeq(Siblings, 1, k), blocks_counter)
    /\ N(nodes', blocks_counter).children = SubSeq(Siblings, k + 1, Len(Siblings))

\* C13 as claimed: the scan stops at the first entry, from the second-to-last
\* backwards, whose begin time is <= t0; that entry and the entries before it
\* stay and the entries after it become the children of the new block.
C13_AdoptionBoundary ==
    [][BlockAttached /\ NestsAround(BeginOf(nodes', blocks_counter)) =>
          SplitAt(BoundaryAtOrBefore(BeginOf(nodes', blocks_counter)))]_vars

\* C13 amended: the scan stops at the first entry whose begin time is < t0;
\* the entries after it (all with begin time >= t0, and the last sibling) become
\* the children of the new block in their order, so a sibling that begins
\* exactly at t0 is adopted unless a later sibling, not the last, begins before t0.
C13_AdoptionBoundaryStrict ==
    [][BlockAttached /\ NestsAround(BeginOf(nodes', blocks_counter)) =>
          /\ SplitAt(BoundaryBefore(BeginOf(nodes', blocks_counter)))
          /\ \A k \in 1..(Len(N(nodes', blocks_counter).children) - 1) :
                BeginOf(nodes, N(nodes', blocks_counter).children[k])
                    >= BeginOf(nodes', blocks_counter)]_vars

\* the block just attached has adopted two siblings, the first of which
\* begins exactly when the block begins
C13_Witness ==
    /\ pc = "poll"
    /\ LET b == blocks_counter - 1 IN
       /\ Len(ChildrenOf(b)) = 2
       /\ BeginOf(nodes, ChildrenOf(b)[1]) = BeginOf(nodes, b)
       /\ FramesOf(thread_id) = <<b>>

\* ------------------------------------------------------------------------
\* C14: what the operation does after its poll has seen the cancellation
\* ------------------------------------------------------------------------
\* C14 as claimed (for a file with nothing wrong, every read at a record
\* boundary): once the poll of line 461 has seen a negative value, no step
\* reads a further record or attaches a further block, and the return that
\* follows is 0 with the thread-root map emptied.
C14_PromptAbort ==
    [][observed_cancel /\ CompleteFile /\ ~misaligned' =>
          /\ pos' = pos
          /\ Len(nodes') <= Len(nodes)
          /\ blocks_counter' = blocks_counter
          /\ (pc' = "done" => result' = 0 /\ threaded_trees' = EmptyMap)]_vars

\* ------------------------------------------------------------------------
\* C15: depths
\* ------------------------------------------------------------------------
\* depth is 0 without children and 1 + the largest depth of a child otherwise
DepthRule(depth, children) ==
    depth = IF children = <<>> THEN 0
            ELSE 1 + Max({N(nodes, c).depth : c \in Range(children)})

\* C15 as claimed: after a return of a non-zero count every node and every
\* thread root has depth 0 if it has no children and 1 + the maximum depth of
\* its children otherwise.
C15_DepthInvariant ==
    pc = "done" /\ result > 0 =>
        /\ \A b \in BlockIndices : DepthRule(N(nodes, b).depth, ChildrenOf(b))
        /\ \A t \in DOMAIN threaded_trees :
              DepthRule(threaded_trees[t].tree.depth, FramesOf(t))

\* ------------------------------------------------------------------------
\* C16: the scope of each of the three records of a node
\* ------------------------------------------------------------------------
\* the thread of block n, its siblings (the children of its parent, or the
\* frames of its thread) and the subtree of the frame it lies in
ThreadOfNode(n) == CHOOSE t \in DOMAIN threaded_trees : n \in ThreadNodes(t)
SiblingsOf(n) ==
    IF \E p \in BlockIndices : n \in Range(ChildrenOf(p))
       THEN Range(ChildrenOf(CHOOSE p \in BlockIndices : n \in Range(ChildrenOf(p))))
       ELSE Range(FramesOf(ThreadOfNode(n)))
FrameNodesOf(n) ==
    SubtreeNodes(CHOOSE f \in Range(FramesOf(ThreadOfNode(n))) : n \in SubtreeNodes(f))

\* the nodes of a scope instance that have the identity of n
SameIdentity(n, scope) == {m \in scope : IdOf(m) = IdOf(n)}

\* C16: after a return of a non-zero count with statistics requested, each of
\* the three records of every node counts exactly the nodes of its identity in
\* its scope instance (its thread, its siblings, the subtree of its frame),
\* and exactly those nodes point to the record.
C16_ScopeCorrect ==
    pc = "done" /\ result > 0 /\ input.gather_statistics =>
        \A n \in BlockIndices :
            /\ N(nodes, n).per_thread_stats # 0
            /\ N(nodes, n).per_parent_stats # 0
            /\ N(nodes, n).per_frame_stats # 0
            /\ stats[N(nodes, n).per_thread_stats].calls_number
                  = Cardinality(SameIdentity(n, ThreadNodes(ThreadOfNode(n))))
            /\ stats[N(nodes, n).per_parent_stats].calls_number
                  = Cardinality(SameIdentity(n, SiblingsOf(n)))
            /\ stats[N(nodes, n).per_frame_stats].calls_number
                  = Cardinality(SameIdentity(n, FrameNodesOf(n)))
            /\ {m \in BlockIndices : N(nodes, m).per_thread_stats = N(nodes, n).per_thread_stats}
                  = SameIdentity(n, ThreadNodes(ThreadOfNode(n)))
            /\ {m \in BlockIndices : N(nodes, m).per_parent_stats = N(nodes, n).per_parent_stats}
                  = SameIdentity(n, SiblingsOf(n))
            /\ {m \in BlockIndices : N(nodes, m).per_frame_stats = N(nodes, n).per_frame_stats}
                  = SameIdentity(n, FrameNodesOf(n))

\* a node whose three records count 1 sibling, 2 nodes of its frame and 3
\* blocks of its thread, all of one identity
C16_Witness ==
    /\ pc = "done" /\ result = 3 /\ input.gather_statistics
    /\ \E n \in BlockIndices :
          /\ stats[N(nodes, n).per_parent_stats].calls_number = 1
          /\ stats[N(nodes, n).per_frame_stats].calls_number = 2
          /\ stats[N(nodes, n).per_thread_stats].calls_number = 3

\* ------------------------------------------------------------------------
\* C17: the values the operation stores into the progress cell
\* ------------------------------------------------------------------------
\* the positions from which the build phase stores (lines 266, 328, 463)
BuildPhase == {"start", "desc_loop", "store"}

Last(s) == s[Len(s)]

\* C17: when the caller leaves the cell alone, every value the build phase
\* stores lies in 0..99, and no store of the operation, in the build phase or
\* in the final stage, is smaller than the store before it.
C17_ProgressReporting ==
    [][~input.caller_cancels /\ stored' # stored =>
          /\ Len(stored') = Len(stored) + 1
          /\ progress' = Last(stored')
          /\ pc \in BuildPhase => Last(stored') \in 0..99
          /\ stored # <<>> => Last(stored') >= Last(stored)]_vars

\* the operation has returned after stores in the descriptor loop, in the
\* block loop up to 90 and in the final stage up to 100
C17_Witness ==
    /\ pc = "done" /\ result > 1
    /\ Len(stored) >= 6
    /\ Last(stored) = 100
    /\ \E j, k \in 1..Len(stored) : j < k /\ stored[j] = 10 /\ stored[k] = 90

\* ------------------------------------------------------------------------
\* C18: the display name of a thread root
\* ------------------------------------------------------------------------
\* the blocks of thread t whose raw descriptor is a thread sign (the reads
\* are at record boundaries, so block b is the b-th block record of the file)
SignBlocks(t) ==
    {b \in ThreadNodes(t) : descriptors[RawId(b) + 1].type = BLOCK_TYPE_THREAD_SIGN}

\* C18 as claimed: when a thread has thread-sign blocks, the display name of
\* its root after decoding is the name of the first of them.
C18_ThreadName ==
    pc = "done" /\ result > 0 /\ CompleteFile =>
        \A t \in DOMAIN threaded_trees :
            SignBlocks(t) # {} =>
                threaded_trees[t].thread_name = NameOf(Min(SignBlocks(t)))

\* ------------------------------------------------------------------------
\* C19: a cancellation after the final check of the build phase
\* ------------------------------------------------------------------------
\* the positions after the check of line 467 has passed
FinalStage == {"dispatch", "join", "serial_final"}

\* the next step of the worker of root t
WorkerStep(t) == WorkerParent(t) \/ WorkerFrame(t) \/ WorkerDepth(t)

\* no step taken in the final stage, by the operation, a worker or the
\* caller, discards a root, a block or a buffer, and the return hands back
\* the block count
StageKeepsAll ==
    (pc \in FinalStage) =>
        /\ DOMAIN threaded_trees' = DOMAIN threaded_trees
        /\ Len(nodes') = Len(nodes)
        /\ serialized_blocks' = serialized_blocks
        /\ serialized_descriptors' = serialized_descriptors
        /\ descriptors' = descriptors
        /\ (pc' = "done" => result' = blocks_counter /\ result' = Len(nodes))

\* C19: once the check of line 467 has passed, whatever the caller stores
\* into the progress cell, every worker that has not finished can take its
\* next step, nothing is discarded, and the operation returns the block
\* count, after every dispatched worker has finished.
C19_LateCancelIgnored ==
    /\ [](pc \in FinalStage =>
            \A t \in DOMAIN wpc : wpc[t] # "done" => ENABLED WorkerStep(t))
    /\ [](pc = "done" /\ spawned # <<>> =>
            /\ result = blocks_counter
            /\ threaded_trees # EmptyMap
            /\ \A t \in DOMAIN threaded_trees : HasKey(wpc, t) /\ wpc[t] = "done")
    /\ [][StageKeepsAll]_vars

\* a first negative value stored while a worker was running is still in the
\* cell at the return of a non-zero count, the two roots kept
C19_Witness ==
    /\ pc = "done" /\ result > 0 /\ progress < 0
    /\ ~cancelled_serial /\ ~observed_cancel
    /\ Len(spawned) = 2
    /\ \A t \in DOMAIN threaded_trees : wpc[t] = "done" /\ FramesOf(t) # <<>>

\* ------------------------------------------------------------------------
\* C20: calls_number as the reference count of a record
\* ------------------------------------------------------------------------
\* the statistics slots of the nodes that point to record r
SlotsOn(r) ==
    {q \in BlockIndices \X {"thread", "parent", "frame"} :
        r = (IF q[2] = "thread" THEN N(nodes, q[1]).per_thread_stats
             ELSE IF q[2] = "parent" THEN N(nodes, q[1]).per_parent_stats
             ELSE N(nodes, q[1]).per_frame_stats)}

\* C20: in every state of the operation the calls_number of each record is
\* the number of statistics slots that point to it, a record is deleted
\* exactly when no slot points to it, and releasing the three slots of every
\* node leaves every record deleted with calls_number 0: freed once, none
\* left over, none released more often than it was referenced.
C20_RefCountCoherence ==
    /\ \A r \in 1..Len(stats) :
          /\ stats[r].calls_number = Cardinality(SlotsOn(r))
          /\ stats[r].deleted <=> SlotsOn(r) = {}
    /\ LET freed == ReleaseAll(stats, nodes, 1) IN
       \A r \in 1..Len(stats) : freed[r].calls_number = 0 /\ freed[r].deleted

\* records with three, two and one slots pointing to them: the per-thread
\* record of three blocks, the per-frame record of a frame with one child, and
\* the per-parent record of that child
C20_Witness ==
    /\ pc = "done" /\ result = 3 /\ input.gather_statistics
    /\ \E n \in BlockIndices :
          /\ Cardinality(SlotsOn(N(nodes, n).per_thread_stats)) = 3
          /\ Cardinality(SlotsOn(N(nodes, n).per_frame_stats)) = 2
          /\ Cardinality(SlotsOn(N(nodes, n).per_parent_stats)) = 1

\* ------------------------------------------------------------------------
\* C21: the trees with and without statistics
\* ------------------------------------------------------------------------
\* The trees of a file as a function of its records alone (the flag
\* gather_statistics is not consulted): the records are taken in order, a
\* thread-group header selects the root, a block is interned, adopts the
\* trailing run of the root's children and is appended; at the end every root
\* gets its thread id and its depth.
PlainState(descs) ==
    [descriptors |-> descs, table |-> EmptyMap, trees |-> EmptyMap, nodes |-> <<>>, t |-> 0]

PlainThread(st, tok) ==
    [st EXCEPT !.t = tok.thread_id,
               !.trees = IF HasKey(st.trees, tok.thread_id) THEN st.trees
                         ELSE Put(st.trees, tok.thread_id, BlocksTreeRoot)]

PlainBlock(st, tok) ==
    LET base == [id |-> tok.id, begin |-> tok.begin, end |-> tok.end, name |-> tok.name]
        root0 == IF st.descriptors[base.id + 1].type = BLOCK_TYPE_THREAD_SIGN
                    THEN [st.trees[st.t] EXCEPT !.thread_name = base.name]
                    ELSE st.trees[st.t]
        intern == Intern(st.table, st.descriptors, base)
        node == [base EXCEPT !.id = intern.id]
        rc == root0.tree.children
        adopts == rc # <<>> /\ node.begin < N(st.nodes, rc[Len(rc)]).node.end
        lower == FindLower(st.nodes, rc, Len(rc) - 1, node.begin)
        adopted == IF adopts THEN SubSeq(rc, lower, Len(rc)) ELSE <<>>
        kept == IF adopts THEN SubSeq(rc, 1, lower - 1) ELSE rc
        depth == IF adopts
                    THEN 1 + Max({N(st.nodes, c).depth : c \in Range(adopted)})
                    ELSE 0
        tree == [BlocksTree(node, Len(st.nodes)) EXCEPT !.children = adopted,
                                                       !.depth = depth]
    IN  [st EXCEPT !.descriptors = intern.descriptors,
                   !.table = intern.table,
                   !.nodes = Append(st.nodes, tree),
                   !.trees = [st.trees EXCEPT ![st.t] =
                                 [root0 EXCEPT !.tree.children = Append(kept, Len(st.nodes))]]]

RECURSIVE PlainRun(_, _, _)
PlainRun(st, toks, k) ==
    IF k > Len(toks) THEN st
    ELSE PlainRun(IF toks[k].kind = "thread" THEN PlainThread(st, toks[k])
                                             ELSE PlainBlock(st, toks[k]),
                  toks, k + 1)

PlainTrees ==
    LET descs == [k \in 1..Len(DescToks) |->
                     [ptr |-> SumSeq([j \in 1..(k - 1) |-> DescToks[j].sz]),
                      type |-> DescToks[k].type]]
        st == PlainRun(PlainState(descs),
                       SubSeq(input.stream, Len(DescToks) + 1, Len(input.stream)), 1)
    IN  [nodes |-> st.nodes,
         trees |-> [t \in DOMAIN st.trees |->
                       [st.trees[t] EXCEPT
                           !.thread_id = t,
                           !.tree.depth =
                               1 + Max({0} \cup {N(st.nodes, c).depth :
                                                    c \in Range(st.trees[t].tree.children)})]]]

\* the nodes without their three statistics slots
WithoutSlots(ns) ==
    [k \in 1..Len(ns) |-> [ns[k] EXCEPT !.per_thread_stats = 0, !.per_parent_stats = 0,
                                        !.per_frame_stats = 0]]

\* C21: for a complete file the count returned, the thread roots with their
\* names, ids and depths, and the children, child order, block index,
\* specialized id and depth of every node are those the records of the file
\* alone determine, whether gather_statistics is true or false; and with the
\* flag false no record exists at any time and every slot stays empty.
C21_FlagKeepsTree ==
    /\ pc = "done" /\ CompleteFile /\ ~ZeroHeader =>
          /\ result = Len(PlainTrees.nodes)
          /\ WithoutSlots(nodes) = PlainTrees.nodes
          /\ threaded_trees = PlainTrees.trees
    /\ ~input.gather_statistics =>
          /\ stats = <<>>
          /\ nodes = WithoutSlots(nodes)
          /\ \A t \in DOMAIN thread_statistics : thread_statistics[t] = EmptyMap
          /\ \A t \in DOMAIN parent_statistics : parent_statistics[t] = EmptyMap
          /\ frame_statistics = EmptyMap

\* with statistics: a block with a specialized id has adopted an earlier
\* block, both hold records, and the trees are those of the records alone
C21_Witness ==
    /\ pc = "done" /\ result = 2 /\ input.gather_statistics /\ CompleteFile
    /\ ChildrenOf(1) = <<0>>
    /\ IdOf(1) >= 2
    /\ N(nodes, 1).depth = 1
    /\ N(nodes, 0).per_parent_stats # 0
    /\ N(nodes, 1).per_frame_stats # 0
    /\ WithoutSlots(nodes) = PlainTrees.nodes

====
